---- MODULE Spec2Model ----
(***************************************************************************)
(* Model of llm_debug.generate_commands (src/src/llm_debug/llm_debug.py).  *)
(*                                                                         *)
(* Text is modelled at two granularities.  The response of the completion  *)
(* endpoint is a sequence of characters (one token per character), because *)
(* str.strip works character by character.  The prompt is a sequence of    *)
(* lines; a line is [ind, body] where ind is the sequence of leading       *)
(* blanks (space or tab) and body is the sequence of text pieces that      *)
(* follow it (<<>> for a line holding only blanks), because                *)
(* textwrap.dedent works on the leading blanks of lines.  A piece is a     *)
(* single blank or a run of text that holds no newline.                    *)
(***************************************************************************)
EXTENDS Integers, Sequences, FiniteSets, TLC

VARIABLES
  prompt, frame, model, code_only, print_prompt, print_answer, \* arguments
  endpoint,          \* what the completion endpoint will answer
  pc,                \* position inside generate_commands
  locals_preview, globals_preview,
  stack_summary, stack_text,
  func_source, context_lines, code_only_rule,
  context,           \* the assembled, dedented system prompt
  stdout,            \* what print() has written so far
  requests,          \* the chat-completion requests sent so far
  code,              \* resp.choices[0].message.content
  ret,               \* the value returned to the caller
  exc                \* the exception propagated to the caller

vars == <<prompt, frame, model, code_only, print_prompt, print_answer,
          endpoint, pc, locals_preview, globals_preview, stack_summary,
          stack_text, func_source, context_lines, code_only_rule, context,
          stdout, requests, code, ret, exc>>

----------------------------------------------------------------------------
(* Bounds of the model *)

MaxRespLen == 4     \* longest free-form response, in characters
MaxDepth == 17      \* deepest call stack
MaxLineno == 13     \* largest current line number
MaxFileLen == 24    \* longest source file, in lines
MaxSrcLen == 3      \* longest file whose indentation is enumerated

(* Constants of the program *)

StackLimit == 15    \* stack_summary[-15:]
Before == 10        \* max(lineno - 10, 1)
After == 10         \* range(start_context, lineno + 10)
NumWidth == 4       \* the field width in f"{i:4d}: {line}"
Temperature == 1    \* temperature=1
DefaultModel == "gpt-5-mini-2025-08-07"
Placeholder == "<source unavailable>"
Directive == "Do not print explanations; just produce the code."

----------------------------------------------------------------------------
(* Small helpers *)

Min(a, b) == IF a < b THEN a ELSE b
Max(a, b) == IF a > b THEN a ELSE b

Unset == <<"unset">>        \* a variable not assigned yet
None == <<"None">>          \* Python's None

BT == "BT"                      \* the backtick character (U+0060)
NL == "\n"
SP == " "
TAB == "\t"
CR == "\r"

Whitespace == {SP, NL, TAB, CR}      \* characters str.isspace() accepts
Blanks(n) == [i \in 1..n |-> SP]

Line(ind, body) == [ind |-> ind, body |-> body]

\* "".join(list of strings): the lines of the parts, in order
RECURSIVE Join(_)
Join(parts) ==
  IF parts = <<>> THEN <<>> ELSE Head(parts) \o Join(Tail(parts))

----------------------------------------------------------------------------
(* str.strip(chars): drop leading and trailing characters that are in chars *)

RECURSIVE LStrip(_, _)
LStrip(s, chars) ==
  IF s # <<>> /\ Head(s) \in chars THEN LStrip(Tail(s), chars) ELSE s

RECURSIVE RStrip(_, _)
RStrip(s, chars) ==
  IF s # <<>> /\ s[Len(s)] \in chars
  THEN RStrip(SubSeq(s, 1, Len(s) - 1), chars) ELSE s

StripChars == {BT, NL, SP}           \* the argument of code.strip: backtick, newline, space

Strip(s) == RStrip(LStrip(s, StripChars), StripChars)

----------------------------------------------------------------------------
(* textwrap.dedent *)

IsPrefix(p, s) == Len(p) <= Len(s) /\ SubSeq(s, 1, Len(p)) = p
IsSuffix(p, s) == Len(p) <= Len(s) /\ SubSeq(s, Len(s) - Len(p) + 1, Len(s)) = p

RECURSIVE CommonPrefix(_, _)
CommonPrefix(a, b) ==
  IF a # <<>> /\ b # <<>> /\ Head(a) = Head(b)
  THEN <<Head(a)>> \o CommonPrefix(Tail(a), Tail(b)) ELSE <<>>

\* the margin: the longest common leading blanks of the lines that hold text;
\* None when no line holds text
RECURSIVE Margin(_, _)
Margin(lines, m) ==
  IF lines = <<>> THEN m
  ELSE LET l == Head(lines) IN
       IF l.body = <<>> THEN Margin(Tail(lines), m)
       ELSE IF m = None THEN Margin(Tail(lines), l.ind)
       ELSE Margin(Tail(lines), CommonPrefix(m, l.ind))

DedentLine(l, m) ==
  IF l.body = <<>> THEN Line(<<>>, <<>>)     \* blank-only lines are emptied
  ELSE IF m # None /\ IsPrefix(m, l.ind)
       THEN Line(SubSeq(l.ind, Len(m) + 1, Len(l.ind)), l.body)
       ELSE l

Dedent(lines) ==
  LET m == Margin(lines, None) IN [i \in 1..Len(lines) |-> DedentLine(lines[i], m)]

----------------------------------------------------------------------------
(* The frame and what the standard library reports about it.               *)
(* A frame is a record                                                     *)
(*   valid       FALSE for an object that is not a frame (no f_locals)     *)
(*   f_locals, f_globals   sequences of [name, value], in dict order;      *)
(*               a value is [type, content]                                *)
(*   depth       number of entries traceback.format_stack produces         *)
(*   file_exists, file     the source file at f_code.co_filename           *)
(*   f_lineno    the current line                                          *)
(*   first, last the lines of the enclosing function                       *)
(*   src_exc     what inspect.getsourcelines raises: "none", "OSError"     *)
(*               or "TypeError"                                            *)
(***************************************************************************)

\* a preview that shows the value itself
ContentName(v) == v.content

\* type(v).__name__
TypeName(v) == v.type

\* {k: type(v).__name__ for k, v in ns.items()}
Preview(ns) ==
  [i \in 1..Len(ns) |-> [name |-> ns[i].name, type |-> TypeName(ns[i].value)]]

\* str() of a preview dict, as the f-string renders it
RECURSIVE ReprItems(_)
ReprItems(p) ==
  IF p = <<>> THEN ""
  ELSE "'" \o Head(p).name \o "': '" \o Head(p).type \o "'"
       \o (IF Len(p) > 1 THEN ", " ELSE "") \o ReprItems(Tail(p))

Repr(p) == "{" \o ReprItems(p) \o "}"

\* linecache.getline(filename, i): the line, or '' (here <<>>) when the file
\* cannot be read or has no such line; it never raises
GetLine(f, i) ==
  IF f.file_exists /\ i >= 1 /\ i <= Len(f.file) THEN <<f.file[i]>> ELSE <<>>

\* one entry of traceback.format_stack(frame): the header line and, when the
\* source line is known and not blank, the stripped source line
StackEntry(f, i) ==
  LET header == Line(Blanks(2),
                     <<"File ", "\"script.py\", in frame " \o ToString(i)>>)
      src == IF i = f.depth THEN GetLine(f, f.f_lineno)
             ELSE IF f.file_exists THEN <<Line(<<>>, <<"call_" \o ToString(i) \o "()">>)>>
             ELSE <<>>
  IN  IF src # <<>> /\ src[1].body # <<>>
      THEN <<header, Line(Blanks(4), src[1].body)>>
      ELSE <<header>>

\* traceback.format_stack(frame): oldest entry first, the frame itself last
FormatStack(f) == [i \in 1..f.depth |-> StackEntry(f, i)]

\* stack_summary[:15], the oldest entries
FirstEntries(s) == SubSeq(s, 1, Min(Len(s), StackLimit))

\* stack_summary[-15:]
LastEntries(s) == SubSeq(s, Max(Len(s) - StackLimit, 0) + 1, Len(s))

\* inspect.getsourcelines(frame): the lines of the function, or an exception
GetSourceLines(f) ==
  IF f.src_exc # "none" THEN [exc |-> f.src_exc, lines |-> <<>>]
  ELSE [exc |-> "none", lines |-> SubSeq(f.file, f.first, f.last)]

\* except OSError
CaughtOSError == {"OSError"}

\* except (OSError, TypeError)
Caught == {"OSError", "TypeError"}

\* the try/except around getsourcelines: the text, and what propagates
FuncSource(f) ==
  LET r == GetSourceLines(f) IN
  IF r.exc = "none" THEN [exc |-> "none", lines |-> r.lines, eol |-> TRUE]
  ELSE IF r.exc \in Caught
       THEN [exc |-> "none", lines |-> <<Line(<<>>, <<Placeholder>>)>>, eol |-> FALSE]
       ELSE [exc |-> r.exc, lines |-> <<>>, eol |-> FALSE]

Digits(i) == IF i < 10 THEN 1 ELSE IF i < 100 THEN 2 ELSE IF i < 1000 THEN 3 ELSE 4

\* f"{i:4d}: {line}": the number right-justified in four columns, then the
\* line with its own leading blanks
Numbered(i, l) ==
  Line(Blanks(Max(NumWidth - Digits(i), 0)), <<ToString(i) \o ": ">> \o l.ind \o l.body)

\* for i in range(start_context, lineno + 10): keep the lines that exist
RECURSIVE ContextFrom(_, _, _)
ContextFrom(f, i, stop) ==
  IF i >= stop THEN <<>>
  ELSE LET line == GetLine(f, i) IN
       (IF line # <<>> THEN <<Numbered(i, line[1])>> ELSE <<>>)
       \o ContextFrom(f, i + 1, stop)

ContextLines(f) ==
  LET start_context == Max(f.f_lineno - Before, 1)
  IN  ContextFrom(f, start_context, f.f_lineno + After)

\* the directive whatever the flag
AlwaysRule(flag) == <<Directive>>

\* "Do not print explanations; just produce the code." if code_only else ""
CodeOnlyRule(flag) == IF flag THEN <<Directive>> ELSE <<>>

----------------------------------------------------------------------------
(* The f-string template and its dedent *)

T(text) == Line(Blanks(4), <<text>>)
Empty == Line(<<>>, <<>>)

\* "    {value}\n" for a value of several lines: the first line follows the
\* template's four blanks, the others start at column 0; a value that ends
\* with a newline leaves an empty line behind it
Interp(lines, eol) ==
  IF lines = <<>> THEN <<Line(Blanks(4), <<>>)>>
  ELSE <<Line(Blanks(4) \o lines[1].ind, lines[1].body)>> \o Tail(lines)
       \o (IF eol THEN <<Empty>> ELSE <<>>)

Template(lp, gp, st, fs, cl, rule) ==
  <<Empty,
    T("You are a Python debugging assistant."),
    T("The user is paused inside a Python script."),
    Empty,
    T("Local variables and their types:"),
    T(Repr(lp)),
    Empty,
    T("Global variables and their types:"),
    T(Repr(gp)),
    Empty,
    T("Current call stack (traceback):")>>
  \o Interp(st, TRUE) \o
  <<Empty,
    T("Current function source:")>>
  \o Interp(fs.lines, fs.eol) \o
  <<Empty,
    T("Nearby code (like ipdb 'll'):")>>
  \o Interp(cl, TRUE) \o
  <<Empty,
    Line(Blanks(4), <<"Your task: return **only Python code** (no prose) that can be executed", SP>>),
    T("to inspect or debug the situation. You may import libraries if needed."),
    Line(Blanks(4), rule),
    Line(Blanks(4), <<>>)>>

\* textwrap.dedent(f"""...""")
Assemble(lp, gp, st, fs, cl, rule) == Dedent(Template(lp, gp, st, fs, cl, rule))

----------------------------------------------------------------------------
(* What print() writes and what the client sends *)

\* lines 84-88: the four print() calls guarded by print_prompt
PromptOutput(flag, ctx, p) ==
  IF flag
  THEN <<[label |-> "System prompt:"], [lines |-> ctx],
         [label |-> "\nUser prompt:"], [text |-> p]>>
  ELSE <<>>

\* print(code.strip(...)): the answer printed after it is stripped
StrippedAnswerOutput(flag, c) == IF flag THEN <<[chars |-> Strip(c)]>> ELSE <<>>

\* lines 101-102: print(code) guarded by print_answer
AnswerOutput(flag, c) == IF flag THEN <<[chars |-> c]>> ELSE <<>>

\* the keyword arguments of client.chat.completions.create
Request(m, ctx, p) ==
  [model |-> m,
   messages |-> <<[role |-> "system", content |-> ctx],
                  [role |-> "user", content |-> p]>>,
   temperature |-> Temperature]

\* a create() that is repeated once when it fails
SendWithRetry(reqs, req, outcome) ==
  IF outcome = "error" THEN Append(Append(reqs, req), req) ELSE Append(reqs, req)

\* the calls the endpoint sees for one create(): the call is made once,
\* whatever its outcome
Send(reqs, req, outcome) == Append(reqs, req)

\* a create() wrapped in an except that swallows the failure
RequestSwallows(outcome) == "none"

\* what create() raises: the failure of the service, as it is
RequestRaises(outcome) == IF outcome = "error" THEN "APIError" ELSE "none"

----------------------------------------------------------------------------
(* generate_commands, statement by statement.  pc names the statement that *)
(* runs next; an exception leaves pc where it was raised and sets exc.     *)

Steps == <<"previews", "stack", "source", "nearby", "assemble", "print_prompt",
           "request", "content", "print_answer", "return", "returned">>

Rank(p) == CHOOSE i \in 1..Len(Steps) : Steps[i] = p

\* the statement named s has completed
Passed(s) == Rank(pc) > Rank(s)

Running == exc = "none" /\ pc # "returned"

InitWith(Frames, Endpoints, Flags) ==
  /\ prompt = "describe my_data"
  /\ model = DefaultModel
  /\ frame \in Frames
  /\ endpoint \in Endpoints
  /\ code_only \in Flags
  /\ print_prompt \in Flags
  /\ print_answer \in Flags
  /\ pc = "previews"
  /\ locals_preview = <<>>
  /\ globals_preview = <<>>
  /\ stack_summary = <<>>
  /\ stack_text = <<>>
  /\ func_source = [lines |-> <<>>, eol |-> FALSE]
  /\ context_lines = <<>>
  /\ code_only_rule = <<>>
  /\ context = <<>>
  /\ stdout = <<>>
  /\ requests = <<>>
  /\ code = Unset
  /\ ret = Unset
  /\ exc = "none"

\* lines 32-34
Previews ==
  /\ Running /\ pc = "previews"
  /\ IF frame.valid
     THEN /\ locals_preview' = Preview(frame.f_locals)
          /\ globals_preview' = Preview(frame.f_globals)
          /\ pc' = "stack"
          /\ exc' = exc
     ELSE /\ exc' = "AttributeError"
          /\ UNCHANGED <<locals_preview, globals_preview, pc>>
  /\ UNCHANGED <<prompt, frame, model, code_only, print_prompt, print_answer,
                 endpoint, stack_summary, stack_text, func_source,
                 context_lines, code_only_rule, context, stdout, requests,
                 code, ret>>

\* lines 36-38
FormatStackStep ==
  /\ Running /\ pc = "stack"
  /\ stack_summary' = FormatStack(frame)
  /\ stack_text' = Join(LastEntries(FormatStack(frame)))
  /\ pc' = "source"
  /\ UNCHANGED <<prompt, frame, model, code_only, print_prompt, print_answer,
                 endpoint, locals_preview, globals_preview, func_source,
                 context_lines, code_only_rule, context, stdout, requests,
                 code, ret, exc>>

\* lines 40-45
GetSource ==
  /\ Running /\ pc = "source"
  /\ LET r == FuncSource(frame) IN
     IF r.exc = "none"
     THEN /\ func_source' = [lines |-> r.lines, eol |-> r.eol]
          /\ pc' = "nearby"
          /\ exc' = exc
     ELSE /\ exc' = r.exc
          /\ UNCHANGED <<func_source, pc>>
  /\ UNCHANGED <<prompt, frame, model, code_only, print_prompt, print_answer,
                 endpoint, locals_preview, globals_preview, stack_summary,
                 stack_text, context_lines, code_only_rule, context, stdout,
                 requests, code, ret>>

\* lines 47-56
NearbyCode ==
  /\ Running /\ pc = "nearby"
  /\ context_lines' = ContextLines(frame)
  /\ pc' = "assemble"
  /\ UNCHANGED <<prompt, frame, model, code_only, print_prompt, print_answer,
                 endpoint, locals_preview, globals_preview, stack_summary,
                 stack_text, func_source, code_only_rule, context, stdout,
                 requests, code, ret, exc>>

\* lines 58-82
AssemblePrompt ==
  /\ Running /\ pc = "assemble"
  /\ code_only_rule' = CodeOnlyRule(code_only)
  /\ context' = Assemble(locals_preview, globals_preview, stack_text,
                         func_source, context_lines, CodeOnlyRule(code_only))
  /\ pc' = "print_prompt"
  /\ UNCHANGED <<prompt, frame, model, code_only, print_prompt, print_answer,
                 endpoint, locals_preview, globals_preview, stack_summary,
                 stack_text, func_source, context_lines, stdout, requests,
                 code, ret, exc>>

\* lines 84-88
PrintPrompt ==
  /\ Running /\ pc = "print_prompt"
  /\ stdout' = stdout \o PromptOutput(print_prompt, context, prompt)
  /\ pc' = "request"
  /\ UNCHANGED <<prompt, frame, model, code_only, print_prompt, print_answer,
                 endpoint, locals_preview, globals_preview, stack_summary,
                 stack_text, func_source, context_lines, code_only_rule,
                 context, requests, code, ret, exc>>

\* lines 90-97: the blocking call; a failure of the service is raised by it
SendRequest ==
  /\ Running /\ pc = "request"
  /\ requests' = Send(requests, Request(model, context, prompt), endpoint.outcome)
  /\ IF RequestRaises(endpoint.outcome) # "none"
     THEN exc' = RequestRaises(endpoint.outcome) /\ pc' = pc
     ELSE exc' = exc /\ pc' = "content"
  /\ UNCHANGED <<prompt, frame, model, code_only, print_prompt, print_answer,
                 endpoint, locals_preview, globals_preview, stack_summary,
                 stack_text, func_source, context_lines, code_only_rule,
                 context, stdout, code, ret>>

\* line 99: resp.choices[0].message.content
ReadContent ==
  /\ Running /\ pc = "content"
  /\ IF endpoint.outcome = "no_choices"
     THEN exc' = "IndexError" /\ UNCHANGED <<code, pc>>
     ELSE /\ code' = (IF endpoint.outcome = "null_content" THEN None
                      ELSE endpoint.content)
          /\ pc' = "print_answer"
          /\ exc' = exc
  /\ UNCHANGED <<prompt, frame, model, code_only, print_prompt, print_answer,
                 endpoint, locals_preview, globals_preview, stack_summary,
                 stack_text, func_source, context_lines, code_only_rule,
                 context, stdout, requests, ret>>

\* lines 101-102
PrintAnswer ==
  /\ Running /\ pc = "print_answer"
  /\ stdout' = stdout \o AnswerOutput(print_answer, code)
  /\ pc' = "return"
  /\ UNCHANGED <<prompt, frame, model, code_only, print_prompt, print_answer,
                 endpoint, locals_preview, globals_preview, stack_summary,
                 stack_text, func_source, context_lines, code_only_rule,
                 context, requests, code, ret, exc>>

\* line 104: None has no strip()
Return ==
  /\ Running /\ pc = "return"
  /\ IF code = None
     THEN exc' = "AttributeError" /\ UNCHANGED <<ret, pc>>
     ELSE ret' = Strip(code) /\ pc' = "returned" /\ exc' = exc
  /\ UNCHANGED <<prompt, frame, model, code_only, print_prompt, print_answer,
                 endpoint, locals_preview, globals_preview, stack_summary,
                 stack_text, func_source, context_lines, code_only_rule,
                 context, stdout, requests, code>>

Next ==
  \/ Previews
  \/ FormatStackStep
  \/ GetSource
  \/ NearbyCode
  \/ AssemblePrompt
  \/ PrintPrompt
  \/ SendRequest
  \/ ReadContent
  \/ PrintAnswer
  \/ Return

----------------------------------------------------------------------------
(* Inputs *)

Values == {[type |-> "int", content |-> "0"], [type |-> "int", content |-> "1"],
           [type |-> "str", content |-> "'a'"], [type |-> "str", content |-> "'__main__'"]}

Globals == <<[name |-> "__name__", value |-> [type |-> "str", content |-> "'__main__'"]],
             [name |-> "limit", value |-> [type |-> "int", content |-> "0"]]>>

Src(n, text) == Line(Blanks(n), <<text>>)

FileA == <<Src(0, "def f(my_data):"), Src(4, "x = 1"), Src(4, "return x")>>

\* a function whose body holds a blank-only line and, inside a string, the
\* text of the directive
FileB == <<Src(0, "def g(my_data):"), Line(Blanks(4), <<>>),
           Line(Blanks(4), <<"note = '", Directive, "'">>)>>

\* a file of n numbered statements
GenFile(n) == [i \in 1..n |-> Src(4, "stmt_" \o ToString(i))]

SrcExcs(exists) == IF exists THEN {"none", "OSError", "TypeError"} ELSE {"OSError"}

Frame(loc, depth, exists, file, lineno, first, last, e) ==
  [valid |-> TRUE, f_locals |-> loc, f_globals |-> Globals, depth |-> depth,
   file_exists |-> exists, file |-> file, f_lineno |-> lineno,
   first |-> first, last |-> last, src_exc |-> e]

\* an object that is not a frame
NotAFrame ==
  [valid |-> FALSE, f_locals |-> <<>>, f_globals |-> <<>>, depth |-> 0,
   file_exists |-> FALSE, file |-> <<>>, f_lineno |-> 1, first |-> 1,
   last |-> 0, src_exc |-> "TypeError"]

Ok(content) == [outcome |-> "ok", content |-> content]
Failures == {[outcome |-> o, content |-> <<>>] :
               o \in {"error", "no_choices", "null_content"}}

FramesMain ==
  {Frame(<<[name |-> "my_data", value |-> v]>>, d, ex, file, ln, 1, Len(file), e) :
     v \in Values, d \in 1..2, ex \in BOOLEAN, file \in {FileA, FileB},
     ln \in 2..3, e \in {"none", "OSError", "TypeError"}}

EndpointsMain ==
  {Ok(<<"x">>), Ok(<<BT, "x", BT, NL>>), Ok(<<"x", TAB>>)} \cup Failures

\* the current line holds a statement, and a file that cannot be read has no
\* retrievable source
Plausible(f) ==
  /\ f.src_exc \in SrcExcs(f.file_exists)
  /\ f.file[f.f_lineno].body # <<>>

Init ==
  InitWith({f \in FramesMain : Plausible(f)} \cup {NotAFrame},
           EndpointsMain, BOOLEAN)

Spec == Init /\ [][Next]_vars

----------------------------------------------------------------------------
(* Specifications that enumerate one input at a time *)

Alphabet == {BT, NL, SP, TAB, CR, "x"}

SeqsUpTo(S, n) == UNION {[1..k -> S] : k \in 0..n}

\* a fenced answer: opening fence with an optional language tag, the code,
\* the closing fence and what the model appended after it
Fenced(tag, body, trail) ==
  <<BT, BT, BT>> \o tag \o <<NL>> \o body \o <<NL, BT, BT, BT>> \o trail

FencedResponses ==
  {Fenced(tag, <<"x", SP, "x">>, trail) :
     tag \in {<<>>, <<"p", "y">>}, trail \in {<<>>, <<NL>>, <<CR, NL>>, <<TAB>>}}

FrameA == Frame(<<[name |-> "my_data", value |-> [type |-> "int", content |-> "0"]]>>,
                2, TRUE, FileA, 2, 1, 3, "none")

\* every short response, and fenced ones
InitStrip ==
  InitWith({FrameA},
           {Ok(r) : r \in SeqsUpTo(Alphabet, MaxRespLen) \cup FencedResponses}
             \cup Failures,
           {FALSE})

SpecStrip == InitStrip /\ [][Next]_vars

\* every current line and file length
FramesWindow ==
  {Frame(<<>>, 1, ex, GenFile(n), ln, 1, n, IF ex /\ ln <= n THEN "none" ELSE "OSError") :
     ex \in BOOLEAN, n \in 0..MaxFileLen, ln \in 1..MaxLineno}

InitWindow == InitWith(FramesWindow, {Ok(<<"x">>)}, {FALSE})

SpecWindow == InitWindow /\ [][Next]_vars

\* every stack depth
FramesStack ==
  {Frame(<<>>, d, ex, FileA, 2, 1, 3, IF ex THEN "none" ELSE "OSError") :
     d \in 0..MaxDepth, ex \in BOOLEAN}

InitStack == InitWith(FramesStack, {Ok(<<"x">>)}, BOOLEAN)

SpecStack == InitStack /\ [][Next]_vars

\* every indentation of a short function: the def line at some indentation,
\* then up to MaxSrcLen body lines, each a statement indented under the def,
\* a blank-only line or an empty line; the last line is the statement the
\* frame is paused on
DefIndents == {<<>>, Blanks(4), <<TAB>>}

BodyLines(ind) ==
  {Line(ind \o more, <<"pass">>) : more \in {Blanks(4), <<TAB>>}}
    \cup {Line(ind \o Blanks(4), <<>>), Line(<<>>, <<>>)}

Functions ==
  UNION {{<<Line(ind, <<"def f():">>)>> \o body :
            body \in {b \in SeqsUpTo(BodyLines(ind), MaxSrcLen) :
                        b # <<>> /\ b[Len(b)].body # <<>>}} :
         ind \in DefIndents}

FramesDedent ==
  {Frame(<<>>, d, TRUE, file, Len(file), 1, Len(file), "none") :
     d \in 1..2, file \in Functions}

InitDedent == InitWith(FramesDedent, {Ok(<<"x">>)}, {FALSE})

SpecDedent == InitDedent /\ [][Next]_vars

\* every value of the variables, one setting of the flags
InitValues ==
  InitWith({f \in FramesMain : Plausible(f)} \cup {NotAFrame},
           {Ok(<<"x">>)} \cup Failures, {TRUE})

SpecValues == InitValues /\ [][Next]_vars

----------------------------------------------------------------------------
(* Predicates on texts *)

\* the characters of a line, blanks first
Flat(l) == l.ind \o l.body

\* some line of the text holds the piece t
HasText(lines, t) ==
  \E i \in 1..Len(lines) : \E j \in 1..Len(lines[i].body) : lines[i].body[j] = t

\* the text src (lines that each end with a newline) is a substring of the
\* text: its first line ends some line k and its other lines are the lines
\* that follow k, whole
Contains(lines, src) ==
  \E k \in 1..Len(lines) :
    /\ k + Len(src) - 1 < Len(lines)
    /\ IsSuffix(Flat(src[1]), Flat(lines[k]))
    /\ \A j \in 2..Len(src) : lines[k + j - 1] = src[j]

IsHeader(l) == l.body # <<>> /\ l.body[1] = "File "

\* the header pieces of the stack entries a text shows, in order
HeadersOf(lines) ==
  LET hs == SelectSeq(lines, IsHeader) IN [i \in 1..Len(hs) |-> hs[i].body]

Terminated == ~Running

----------------------------------------------------------------------------
(* C1: the value generate_commands returns has no backtick and no          *)
(* whitespace character as its first or last character, whatever the       *)
(* endpoint answered (fenced or not, ending in tab or carriage return).    *)
C1_ReturnHasNoEdgeBacktickOrWhitespace ==
  pc = "returned" =>
    \/ ret = <<>>
    \/ /\ ret[1] \notin Whitespace \cup {BT}
       /\ ret[Len(ret)] \notin Whitespace \cup {BT}

----------------------------------------------------------------------------
(* C2: the nearby-code window holds the existing lines from max(L-10, 1)   *)
(* through L+10 inclusive, at most 21 of them, each prefixed with its own  *)
(* line number padded to four columns.                                     *)
C2_WindowCoversTenAfter ==
  (frame.valid /\ Passed("nearby")) =>
    LET lo == Max(frame.f_lineno - 10, 1)
        hi == IF frame.file_exists THEN Min(frame.f_lineno + 10, Len(frame.file))
              ELSE 0
        cnt == Max(hi - lo + 1, 0)
    IN  /\ Len(context_lines) <= 21
        /\ context_lines = [k \in 1..cnt |-> Numbered(lo + k - 1, frame.file[lo + k - 1])]

----------------------------------------------------------------------------
(* C3: for a stack of n formatted entries, the stack section of the        *)
(* prompt shows exactly min(n, 15) entries, and they are the last entries  *)
(* of the formatted stack in their original order.                         *)
C3_StackSectionIsLast15 ==
  (frame.valid /\ Passed("stack")) =>
    LET n == Len(stack_summary)
        k == Min(n, 15)
        expected == [i \in 1..k |-> stack_summary[n - k + i][1].body]
    IN  /\ n = frame.depth
        /\ HeadersOf(stack_text) = expected
        /\ Passed("assemble") => HeadersOf(context) = expected

C3_Witness ==
  /\ pc = "returned"
  /\ frame.depth > 15
  /\ Len(HeadersOf(context)) = 15

----------------------------------------------------------------------------
(* C4: when the source of the enclosing function cannot be retrieved, the  *)
(* prompt holds the placeholder in place of the function source, no        *)
(* exception leaves that step, and the invocation goes on to the request.  *)
C4_PlaceholderWhenSourceUnavailable ==
  (frame.valid /\ frame.src_exc # "none") =>
    /\ pc = "source" => exc = "none"
    /\ Passed("source") =>
         func_source = [lines |-> <<Line(<<>>, <<"<source unavailable>">>)>>, eol |-> FALSE]
    /\ Passed("assemble") =>
         \E i \in 2..Len(context) :
           /\ context[i].body = <<"<source unavailable>">>
           /\ context[i - 1].body = <<"Current function source:">>
    /\ Terminated =>
         /\ Len(requests) = 1
         /\ HasText(requests[1].messages[1].content, "<source unavailable>")

C4_Witness ==
  /\ frame.valid /\ frame.file_exists /\ frame.src_exc = "TypeError"
  /\ pc = "returned"
  /\ HasText(context, Placeholder)

----------------------------------------------------------------------------
(* C5: when the function source is retrievable, the prompt sent as the     *)
(* system message contains that source text verbatim, indentation and      *)
(* whitespace-only lines included.                                         *)
C5_PromptContainsSourceVerbatim ==
  (frame.valid /\ frame.src_exc = "none" /\ frame.first <= frame.last
     /\ Passed("assemble")) =>
    Contains(context, SubSeq(frame.file, frame.first, frame.last))

----------------------------------------------------------------------------
(* C6 as stated: the prompt contains the directive text if and only if     *)
(* code_only is set, for every frame.                                      *)
C6_DirectiveIffCodeOnly ==
  (frame.valid /\ Passed("assemble")) =>
    (HasText(context, "Do not print explanations; just produce the code.")
       <=> code_only)

(* C6 amended: the directive line of the template, the line before the    *)
(* prompt's final empty line, is the directive text when code_only is set  *)
(* and is empty otherwise; with code_only unset the prompt holds that text *)
(* only if text taken from the frame (stack entries, function source or    *)
(* nearby source lines, all read from its source file) holds it.           *)
C6_DirectiveLineIffCodeOnly ==
  (frame.valid /\ Passed("assemble")) =>
    LET d == "Do not print explanations; just produce the code."
        rule == context[Len(context) - 1]
    IN  /\ code_only => rule.body = <<d>> /\ HasText(context, d)
        /\ ~code_only => rule.body = <<>>
        /\ (~code_only /\ HasText(context, d)) =>
             frame.file_exists /\ HasText(frame.file, d)

C6_Witness ==
  /\ frame.valid /\ pc = "returned"
  /\ code_only
  /\ ~HasText(frame.file, Directive)
  /\ HasText(requests[1].messages[1].content, Directive)

----------------------------------------------------------------------------
(* The frames that differ from f only in the values of its variables: the  *)
(* same names with values of the same types.                               *)

SameTypes(ns) ==
  {[i \in 1..Len(ns) |-> [name |-> ns[i].name, value |-> w[i]]] :
     w \in {v \in [1..Len(ns) -> Values] :
              \A i \in 1..Len(ns) : v[i].type = ns[i].value.type}}

Twins(f) ==
  {[f EXCEPT !.f_locals = l, !.f_globals = g] :
     l \in SameTypes(f.f_locals), g \in SameTypes(f.f_globals)}

\* the system prompt generate_commands builds for a frame
PromptOf(f, flag) ==
  Assemble(Preview(f.f_locals), Preview(f.f_globals),
           Join(LastEntries(FormatStack(f))),
           [lines |-> FuncSource(f).lines, eol |-> FuncSource(f).eol],
           ContextLines(f), CodeOnlyRule(flag))

(* C7: the previews map every variable name to the name of its type and   *)
(* never to its content; a frame with the same names and types but other   *)
(* values gives the same previews and the same system message.             *)
C7_PreviewsShowTypesOnly ==
  (frame.valid /\ Passed("previews")) =>
    /\ Len(locals_preview) = Len(frame.f_locals)
    /\ Len(globals_preview) = Len(frame.f_globals)
    /\ \A i \in 1..Len(locals_preview) :
         locals_preview[i] = [name |-> frame.f_locals[i].name,
                              type |-> frame.f_locals[i].value.type]
    /\ \A i \in 1..Len(globals_preview) :
         globals_preview[i] = [name |-> frame.f_globals[i].name,
                               type |-> frame.f_globals[i].value.type]
    /\ \A twin \in Twins(frame) :
         /\ Preview(twin.f_locals) = locals_preview
         /\ Preview(twin.f_globals) = globals_preview
         /\ pc = "print_prompt" => PromptOf(twin, code_only) = context
         /\ (pc = "content" \/ (pc = "request" /\ exc # "none")) =>
              requests[1].messages[1].content = PromptOf(twin, code_only)

C7_Witness ==
  /\ frame.valid /\ pc = "content"
  /\ \E twin \in Twins(frame) :
       /\ twin.f_locals[1].value # frame.f_locals[1].value
       /\ twin.f_globals # frame.f_globals
       /\ requests[1].messages[1].content = PromptOf(twin, code_only)

----------------------------------------------------------------------------
(* C8 as stated: every failure other than the source-introspection failure *)
(* propagates to the caller; in particular a missing source file makes     *)
(* generate_commands raise instead of building a prompt and sending a      *)
(* request.                                                                *)
C8_MissingFileRaises ==
  /\ (Terminated /\ (~frame.valid \/ endpoint.outcome # "ok")) =>
       exc # "none" /\ ret = Unset
  /\ (frame.valid /\ ~frame.file_exists) =>
       /\ context = <<>> /\ requests = <<>>
       /\ Terminated => exc # "none"

(* C8 amended: an object that is not a frame, a failing completion request *)
(* and a malformed response raise to the caller and no value is returned;  *)
(* a missing source file raises nothing: the function source becomes the   *)
(* placeholder, the nearby-code window is empty, and the prompt is built   *)
(* and the request sent.                                                   *)
C8_FailuresPropagateMissingFileDoesNot ==
  /\ (Terminated /\ ~frame.valid) =>
       exc = "AttributeError" /\ ret = Unset /\ requests = <<>>
  /\ (Terminated /\ frame.valid /\ endpoint.outcome = "error") =>
       exc = "APIError" /\ ret = Unset
  /\ (Terminated /\ frame.valid /\ endpoint.outcome = "no_choices") =>
       exc = "IndexError" /\ ret = Unset
  /\ (Terminated /\ frame.valid /\ endpoint.outcome = "null_content") =>
       exc = "AttributeError" /\ ret = Unset
  /\ (Terminated /\ frame.valid /\ endpoint.outcome = "ok") =>
       exc = "none" /\ ret # Unset
  /\ (frame.valid /\ ~frame.file_exists) =>
       /\ Passed("nearby") =>
            /\ context_lines = <<>>
            /\ func_source.lines = <<Line(<<>>, <<"<source unavailable>">>)>>
       /\ Terminated => Len(context) > 0 /\ Len(requests) = 1

C8_Witness ==
  /\ frame.valid /\ ~frame.file_exists
  /\ Len(requests) = 1
  /\ exc = "APIError"

----------------------------------------------------------------------------
(* C9: an invocation that reaches the dispatch step sends exactly one      *)
(* chat-completion request (system message the prompt, user message the    *)
(* instruction, temperature 1); it is never repeated, and when it fails    *)
(* the failure goes to the caller, with no retry and no returned value.    *)
C9_ExactlyOneRequest ==
  /\ Len(requests) <= 1
  /\ requests # <<>> <=> (Passed("request") \/ (pc = "request" /\ exc # "none"))
  /\ requests # <<>> =>
       /\ requests[1].model = model
       /\ requests[1].temperature = 1
       /\ Len(requests[1].messages) = 2
       /\ requests[1].messages[1] = [role |-> "system", content |-> context]
       /\ requests[1].messages[2] = [role |-> "user", content |-> prompt]
  /\ (requests # <<>> /\ endpoint.outcome = "error") =>
       /\ pc = "request" /\ exc = "APIError"
       /\ ret = Unset /\ code = Unset

C9_Witness ==
  /\ endpoint.outcome = "error"
  /\ Len(requests) = 1
  /\ Terminated

----------------------------------------------------------------------------
(* C10: the prompt and the instruction are printed, iff print_prompt is    *)
(* set, before the request is sent; the response is printed, iff           *)
(* print_answer is set, after the request returns and before the value is  *)
(* returned, and it is the raw response, not the stripped one; with both   *)
(* flags unset nothing is printed.                                         *)
C10_PrintOrder ==
  LET shown == IF print_prompt
               THEN <<[label |-> "System prompt:"], [lines |-> context],
                      [label |-> "\nUser prompt:"], [text |-> prompt]>>
               ELSE <<>>
      raw == IF endpoint.outcome = "null_content" THEN None ELSE endpoint.content
      answer == IF print_answer THEN <<[chars |-> raw]>> ELSE <<>>
  IN  /\ ~Passed("print_prompt") => stdout = <<>> /\ requests = <<>>
      /\ (Passed("print_prompt") /\ ~Passed("print_answer")) => stdout = shown
      /\ Passed("print_answer") => stdout = shown \o answer /\ requests # <<>>
      /\ ret # Unset => Passed("print_answer")
      /\ (~print_prompt /\ ~print_answer) => stdout = <<>>

C10_Witness ==
  /\ pc = "returned"
  /\ print_prompt /\ print_answer
  /\ ret # code
  /\ Len(stdout) = 5 /\ stdout[5] = [chars |-> code]

====
